---- MODULE Spec2Model ----
(***************************************************************************)
(* Model of yandex_reviews_to_md.py: the identifier extractor extract_id,  *)
(* the document renderer build_markdown, and the control flow of main()    *)
(* with its spinner threads, progress callbacks, the patched review        *)
(* collection loop, the KeyboardInterrupt handler and the finally block.   *)
(*                                                                         *)
(* Text is a sequence of one-character strings.  Python integers are       *)
(* unbounded, so an int is kept as its canonical decimal digit sequence.   *)
(***************************************************************************)
EXTENDS Integers, Sequences, FiniteSets, TLC

VARIABLES
    pc,                       \* position of the main thread (source line)
    input_value,              \* main: input_value / extract_id: source
    company_id,               \* result of extract_id
    parser_id,                \* the id YandexParser was constructed with
    tqdm,                     \* TRUE when the tqdm import succeeded
    verbose,                  \* args.verbose
    args_output,              \* args.output: what the --output argument names
    startup_spinner_stopped,  \* main's local flag
    startup_stop_event,       \* threading.Event of the startup spinner
    startup_spinner_thread,   \* state of the startup spinner thread
    stop_event,               \* threading.Event of the parsing spinner
    spinner_thread,           \* state of the parsing spinner thread
    console,                  \* which spinner line is drawn on the console
    frame,                    \* index into _SPINNER_FRAMES of the last frame
    pbar,                     \* the tqdm progress bar
    progress_callback,        \* global _progress_callback
    elements,                 \* review elements found on the page
    reviews,                  \* list built by _patched_get_data_reviews
    data,                     \* value bound by  data = yp.parse()
    exc,                      \* exception in flight in main
    interrupted,              \* history: KeyboardInterrupt raised during parse
    cb_failed,                \* history: the progress callback raised an error
    md_text,                  \* result of build_markdown
    output_path,              \* result of _validate_output
    file_written,             \* output_path.write_text was executed
    exit_msg                  \* how the process ended

vars == <<pc, input_value, company_id, parser_id, tqdm, verbose, args_output,
          startup_spinner_stopped, startup_stop_event, startup_spinner_thread,
          stop_event, spinner_thread, console, frame, pbar, progress_callback,
          elements, reviews, data, exc, interrupted, cb_failed, md_text,
          output_path, file_written, exit_msg>>

(***************************************************************************)
(* Bounds of the model.                                                    *)
(***************************************************************************)
MaxTokens == 4      \* extract_id inputs: at most this many tokens
MaxReviews == 2     \* build_markdown inputs: at most this many reviews
MaxElements == 2    \* main: at most this many review elements on the page

(***************************************************************************)
(* Program constants.                                                      *)
(***************************************************************************)
MinDigits == 6      \* \d{6,} in extract_id's pattern
NumFrames == 4      \* len(_SPINNER_FRAMES)

Min(S) == CHOOSE x \in S : \A y \in S : x <= y
Max(S) == CHOOSE x \in S : \A y \in S : x >= y

(***************************************************************************)
(* Characters.                                                             *)
(***************************************************************************)
DigitChars == {"0", "7"}
OtherChars == {"/", "?", "x", "\n"}
Whitespace == {" ", "\n"}

RECURSIVE Flatten(_)
Flatten(ss) == IF ss = <<>> THEN <<>> ELSE Head(ss) \o Flatten(Tail(ss))

Repeat(c, n) == [i \in 1..n |-> c]

\* A token is one character or a run of one digit whose length is just
\* below, at, or just above the pattern's minimum.
Tokens ==
    {<<c>> : c \in DigitChars \cup OtherChars}
    \cup {Repeat(d, n) : d \in DigitChars, n \in (MinDigits - 1)..(MinDigits + 1)}

Sources ==
    {Flatten(ts) : ts \in UNION {[1..n -> Tokens] : n \in 0..MaxTokens}}

(***************************************************************************)
(* extract_id                                                              *)
(***************************************************************************)
\* str.isdigit(): non-empty and every character a digit
isdigit(s) == Len(s) > 0 /\ \A i \in 1..Len(s) : s[i] \in DigitChars

\* int(s) for a digit string: leading zeros carry no value
RECURSIVE int(_)
int(s) == IF Len(s) > 1 /\ Head(s) = "0" THEN int(Tail(s)) ELSE s

Zero == <<"0">>

\* number of consecutive digits of s starting at position p
RECURSIVE DigitRun(_, _)
DigitRun(s, p) ==
    IF p <= Len(s) /\ s[p] \in DigitChars THEN 1 + DigitRun(s, p + 1) ELSE 0

\* Python's $ : at the end of the string, or just before a final newline
AtDollar(s, q) == q = Len(s) + 1 \/ (q = Len(s) /\ s[q] = "\n")

\* (?:/|\?|$) at position q
TailMatches(s, q) == (q <= Len(s) /\ s[q] \in {"/", "?"}) \/ AtDollar(s, q)

\* the pattern without its leading / : (\d{6,})(?:/|\?|$) after any character
MatchAtNoSlash(s, p) ==
    LET n == DigitRun(s, p + 1)
        ks == {k \in MinDigits..n : TailMatches(s, p + 1 + k)}
    IN  IF ks = {} THEN 0 ELSE Max(ks)

\* /(\d{6,})(?:/|\?|$) anchored at p: the length of group 1, greedy with
\* backtracking, or 0 when the pattern does not match at p
MatchAt(s, p) ==
    IF s[p] # "/" THEN 0
    ELSE LET n == DigitRun(s, p + 1)
             ks == {k \in MinDigits..n : TailMatches(s, p + 1 + k)}
         IN  IF ks = {} THEN 0 ELSE Max(ks)

\* re.search: the leftmost position where the pattern matches; group(1)
re_search(s) ==
    LET ps == {p \in 1..Len(s) : MatchAt(s, p) > 0}
    IN  IF ps = {} THEN [found |-> FALSE, group1 |-> <<>>]
        ELSE LET p == Min(ps)
             IN  [found |-> TRUE, group1 |-> SubSeq(s, p + 1, p + MatchAt(s, p))]

NoId == [st |-> "unset", id |-> <<>>]
ValueError == [st |-> "ValueError", id |-> <<>>]
Id(v) == [st |-> "ok", id |-> v]

extract_id(source) ==
    IF isdigit(source) THEN Id(int(source))
    ELSE LET match == re_search(source)
         IN  IF match.found THEN Id(int(match.group1)) ELSE ValueError

(***************************************************************************)
(* build_markdown                                                          *)
(***************************************************************************)
\* Optional text values: Python's None, or a str
None == [t |-> "None", s |-> <<>>]
Str(x) == [t |-> "str", s |-> x]

\* truth value of an optional str: None and "" are falsy
Truthy(v) == v.t = "str" /\ v.s # <<>>

\* f"{v}": None is formatted as the text None
PyStr(v) == IF v.t = "None" THEN <<"N", "o", "n", "e">> ELSE v.s

\* dict.get(key): None when the key is missing
Get(review, key) == IF key \in review.keys THEN review[key] ELSE None

\* str.strip()
RECURSIVE lstrip(_)
lstrip(s) == IF s # <<>> /\ Head(s) \in Whitespace THEN lstrip(Tail(s)) ELSE s
RECURSIVE rstrip(_)
rstrip(s) ==
    IF s # <<>> /\ s[Len(s)] \in Whitespace THEN rstrip(SubSeq(s, 1, Len(s) - 1))
    ELSE s
strip(s) == rstrip(lstrip(s))

\* "_(tekst otsutstvuet)_", the literal of line 280
NoTextPlaceholder == <<"_(no text)_">>

\* datetime.fromtimestamp(ts).strftime("%d.%m.%Y"): a timestamp is a local
\* calendar day and a time within that day; the format keeps the day
strftime(ts) == <<"day", ts.day>>

\* one entry of the list md
MdLine(kind, idx, val, aux) == [kind |-> kind, idx |-> idx, val |-> val, aux |-> aux]

\* enumerate(reviews, 1)
enumerate(rs) == [i \in 1..Len(rs) |-> [idx |-> i, review |-> rs[i]]]

\* tqdm(iterable, ...): yields the items of the iterable, in order
tqdm_iter(it) == it

\* lines 260-271
Iterable(rs, vb, tq) ==
    IF tq /\ ~vb THEN tqdm_iter(enumerate(rs)) ELSE enumerate(rs)

BodyOf(review) ==
    LET text == Get(review, "text")
        stripped == strip(IF Truthy(text) THEN text.s ELSE <<>>)
    IN  IF stripped # <<>> THEN stripped ELSE NoTextPlaceholder

ReviewBlock(idx, review) ==
    LET date_str == strftime(review.date)
        answer == Get(review, "answer")
    IN  <<MdLine("h3", idx, PyStr(review.name), date_str),
          MdLine("stars", idx, <<>>, review.stars),
          MdLine("body", idx, BodyOf(review), 0)>>
        \o (IF Truthy(answer)
            THEN <<MdLine("reply", idx, strip(answer.s), 0)>> ELSE <<>>)
        \o <<MdLine("sep", idx, <<>>, 0)>>

Header(company) ==
    <<MdLine("h1", 0, company.name, 0),
      MdLine("rating", 0, <<>>, <<company.rating, company.count_rating>>),
      MdLine("sep", 0, <<>>, 0),
      MdLine("h2", 0, <<>>, 0)>>

\* a renderer that drops reviews having no text
build_markdown_filtering(d, vb, tq) ==
    LET it == SelectSeq(Iterable(d.company_reviews, vb, tq),
                        LAMBDA e : Truthy(Get(e.review, "text")))
    IN  Header(d.company_info)
        \o Flatten([i \in 1..Len(it) |-> ReviewBlock(it[i].idx, it[i].review)])

build_markdown(d, vb, tq) ==
    LET it == Iterable(d.company_reviews, vb, tq)
    IN  Header(d.company_info)
        \o Flatten([i \in 1..Len(it) |-> ReviewBlock(it[i].idx, it[i].review)])

Company == [name |-> <<"C">>, rating |-> 4, count_rating |-> 10]

Review(name, ts, text, answer, keys) ==
    [name |-> name, date |-> ts, stars |-> 5, text |-> text, answer |-> answer,
     keys |-> keys]

Timestamps == {[day |-> 1, sec |-> 0], [day |-> 2, sec |-> 1]}
Names == {None, Str(<<"A">>)}
Texts == {None, Str(<<>>), Str(<<" ">>), Str(<<" ", "a", "\n">>)}
Answers == {None, Str(<<"r", " ">>)}

\* reviews as asdict(Review) gives them (every key present), and reviews
\* whose text key is missing
ReviewSet ==
    {Review(n, ts, t, a, {"text", "answer"}) :
        n \in Names, ts \in Timestamps, t \in Texts, a \in Answers}
    \cup {Review(n, ts, None, a, {"answer"}) :
        n \in Names, ts \in Timestamps, a \in Answers}

ReviewSeqs == UNION {[1..n -> ReviewSet] : n \in 0..MaxReviews}

DataOf(rs) == [st |-> "set", company_info |-> Company, company_reviews |-> rs]
NoData == [st |-> "unset", company_info |-> Company, company_reviews |-> <<>>]

(***************************************************************************)
(* _validate_output                                                        *)
(***************************************************************************)
\* What args.output can name: nothing, an existing directory, a file whose
\* parent exists, a file whose parent is missing and can be created, a file
\* whose parent is missing and cannot be created (mkdir raises OSError).
OutputArgs == {"None", "dir", "file", "file_new_parent", "file_bad_parent"}

NoPath == [st |-> "unset", name |-> "", mkdir |-> FALSE]

_validate_output(path_str) ==
    IF path_str = "None" THEN [st |-> "ok", name |-> "cwd/reviews_id.md", mkdir |-> FALSE]
    ELSE IF path_str = "dir" THEN [st |-> "ok", name |-> "dir/reviews_id.md", mkdir |-> FALSE]
    ELSE IF path_str = "file" THEN [st |-> "ok", name |-> "file", mkdir |-> FALSE]
    ELSE IF path_str = "file_new_parent" THEN [st |-> "ok", name |-> "file", mkdir |-> TRUE]
    ELSE [st |-> "OSError", name |-> "", mkdir |-> FALSE]

(***************************************************************************)
(* main(): state                                                           *)
(***************************************************************************)
NoPbar == [st |-> "None", total |-> 0, n |-> 0]

\* bool(pbar): tqdm.__bool__ is  total > 0  once total is known
PbarTruthy == pbar.st # "None" /\ pbar.total > 0

\* positions inside  data = yp.parse()  (line 418), callbacks included
OnProgressPcs == {"op_check", "op_flag", "op_set", "op_join", "op_pbar", "op_update"}
FallbackPcs == {"fb_check", "fb_flag", "fb_set", "fb_join", "fb_new", "fb_start"}
FetchPcs == {"open_page", "loop", "callback"} \cup OnProgressPcs \cup FallbackPcs

\* the page's review elements, each standing for the dict __get_data_item
\* makes of it
SampleReview(i) ==
    Review(IF i % 2 = 1 THEN None ELSE Str(<<"A">>),
           [day |-> i, sec |-> 0],
           IF i % 2 = 1 THEN Str(<<" ", "a", "\n">>) ELSE None,
           None, {"text", "answer"})

ElementLists == {[i \in 1..n |-> SampleReview(i)] : n \in 0..MaxElements}

get_data_item(elem) == elem

MainSources == {<<"0">>, <<"7">>, <<"x">>, <<"/">> \o Repeat("7", MinDigits) \o <<"?">>}

Quiet ==
    /\ company_id = NoId
    /\ parser_id = <<>>
    /\ startup_spinner_stopped = FALSE
    /\ startup_stop_event = "None"
    /\ startup_spinner_thread = "None"
    /\ stop_event = "None"
    /\ spinner_thread = "None"
    /\ console = "clean"
    /\ frame = 0
    /\ pbar = NoPbar
    /\ progress_callback = "None"
    /\ reviews = <<>>
    /\ exc = "none"
    /\ interrupted = FALSE
    /\ cb_failed = FALSE
    /\ md_text = <<>>
    /\ output_path = NoPath
    /\ file_written = FALSE
    /\ exit_msg = "none"

Init ==
    /\ pc = "extract"
    /\ input_value \in MainSources
    /\ tqdm \in BOOLEAN
    /\ verbose \in BOOLEAN
    /\ args_output \in OutputArgs
    /\ elements \in ElementLists
    /\ data = NoData
    /\ Quiet

main_vars == <<input_value, tqdm, verbose, args_output, elements>>
spinner_vars == <<startup_stop_event, startup_spinner_thread, stop_event,
                  spinner_thread, console, frame>>
history_vars == <<interrupted, cb_failed>>
output_vars == <<md_text, output_path, file_written>>

(***************************************************************************)
(* main(): lines 348-415                                                   *)
(***************************************************************************)
\* lines 349-352, extract_id raised ValueError and main went on regardless
MainExtractFailIgnored ==
    /\ pc = "extract"
    /\ extract_id(input_value).st = "ValueError"
    /\ company_id' = extract_id(input_value)
    /\ pc' = "construct"
    /\ UNCHANGED <<main_vars, spinner_vars, history_vars, output_vars, parser_id,
                   startup_spinner_stopped, pbar, progress_callback, reviews,
                   data, exc, exit_msg>>

\* lines 349-352: sys.exit(f"Oshibka: {exc}")
MainExtractFail ==
    /\ pc = "extract"
    /\ extract_id(input_value).st = "ValueError"
    /\ company_id' = extract_id(input_value)
    /\ exit_msg' = "invalid_id"
    /\ pc' = "exit"
    /\ UNCHANGED <<main_vars, spinner_vars, history_vars, output_vars, parser_id,
                   startup_spinner_stopped, pbar, progress_callback, reviews,
                   data, exc>>

\* line 350
MainExtractOk ==
    /\ pc = "extract"
    /\ extract_id(input_value).st = "ok"
    /\ company_id' = extract_id(input_value)
    /\ pc' = "construct"
    /\ UNCHANGED <<main_vars, spinner_vars, history_vars, output_vars, parser_id,
                   startup_spinner_stopped, pbar, progress_callback, reviews,
                   data, exc, exit_msg>>

\* line 355: yp = YandexParser(company_id)
MainConstructParser ==
    /\ pc = "construct"
    /\ parser_id' = company_id.id
    /\ pc' = "start_spinner"
    /\ UNCHANGED <<main_vars, spinner_vars, history_vars, output_vars, company_id,
                   startup_spinner_stopped, pbar, progress_callback, reviews,
                   data, exc, exit_msg>>

\* lines 361-373
MainStartStartupSpinner ==
    /\ pc = "start_spinner"
    /\ startup_stop_event' = "clear"
    /\ startup_spinner_thread' = "alive"
    /\ startup_spinner_stopped' = FALSE
    /\ pc' = "install"
    /\ UNCHANGED <<main_vars, history_vars, output_vars, company_id, parser_id,
                   stop_event, spinner_thread, console, frame, pbar,
                   progress_callback, reviews, data, exc, exit_msg>>

\* lines 375-413
MainInstallCallback ==
    /\ pc = "install"
    /\ IF tqdm
       THEN progress_callback' = "on_progress" /\ UNCHANGED stop_event
       ELSE progress_callback' = "on_progress_fallback" /\ stop_event' = "clear"
    /\ pc' = "parse"
    /\ UNCHANGED <<main_vars, history_vars, output_vars, company_id, parser_id,
                   startup_spinner_stopped, startup_stop_event,
                   startup_spinner_thread, spinner_thread, console, frame, pbar,
                   reviews, data, exc, exit_msg>>

\* line 418: yp.parse() is entered; the browser starts and the page loads
MainCallParse ==
    /\ pc = "parse"
    /\ pc' = "open_page"
    /\ UNCHANGED <<main_vars, spinner_vars, history_vars, output_vars, company_id,
                   parser_id, startup_spinner_stopped, pbar, progress_callback,
                   reviews, data, exc, exit_msg>>

(***************************************************************************)
(* yp.parse(): the page load and _patched_get_data_reviews, lines 143-159  *)
(***************************************************************************)
id_vars == <<company_id, parser_id>>

\* lines 144-154: the elements are found, total = len(elements)
FetchOpenPage ==
    /\ pc = "open_page"
    /\ pc' = "loop"
    /\ UNCHANGED <<main_vars, spinner_vars, history_vars, output_vars, id_vars,
                   startup_spinner_stopped, pbar, progress_callback, reviews,
                   data, exc, exit_msg>>

\* lines 155-156: reviews.append(self._Parser__get_data_item(elem))
LoopAppend ==
    /\ pc = "loop"
    /\ Len(reviews) < Len(elements)
    /\ reviews' = Append(reviews, get_data_item(elements[Len(reviews) + 1]))
    /\ pc' = "callback"
    /\ UNCHANGED <<main_vars, spinner_vars, history_vars, output_vars, id_vars,
                   startup_spinner_stopped, pbar, progress_callback, data, exc,
                   exit_msg>>

\* lines 157-158: if _progress_callback: _progress_callback(idx, total)
LoopCallback ==
    /\ pc = "callback"
    /\ pc' = IF progress_callback = "on_progress" THEN "op_check"
             ELSE IF progress_callback = "on_progress_fallback" THEN "fb_check"
             ELSE "loop"
    /\ UNCHANGED <<main_vars, spinner_vars, history_vars, output_vars, id_vars,
                   startup_spinner_stopped, pbar, progress_callback, reviews,
                   data, exc, exit_msg>>

\* line 159 and line 418: the loop is exhausted, parse() returns, data is bound
LoopReturn ==
    /\ pc = "loop"
    /\ Len(reviews) = Len(elements)
    /\ data' = DataOf(reviews)
    /\ pc' = "finally"
    /\ UNCHANGED <<main_vars, spinner_vars, history_vars, output_vars, id_vars,
                   startup_spinner_stopped, pbar, progress_callback, reviews,
                   exc, exit_msg>>

\* the scraper raises (a driver error) outside the callback: no except
\* clause of main matches, the finally block runs
FetchError ==
    /\ pc \in {"open_page", "loop"}
    /\ exc' = "Error"
    /\ pc' = "finally"
    /\ UNCHANGED <<main_vars, spinner_vars, history_vars, output_vars, id_vars,
                   startup_spinner_stopped, pbar, progress_callback, reviews,
                   data, exit_msg>>

\* Ctrl+C while parse() is in progress: KeyboardInterrupt is raised in the
\* main thread between two bytecodes, wherever it is, and nothing between
\* there and line 419 catches it
KeyboardInterrupt ==
    /\ pc \in FetchPcs
    /\ ~interrupted
    /\ interrupted' = TRUE
    /\ exc' = "KeyboardInterrupt"
    /\ pc' = "except"
    /\ UNCHANGED <<main_vars, spinner_vars, cb_failed, output_vars, id_vars,
                   startup_spinner_stopped, pbar, progress_callback, reviews,
                   data, exit_msg>>

(***************************************************************************)
(* on_progress, lines 377-391                                              *)
(***************************************************************************)
\* line 380
OnProgressCheck ==
    /\ pc = "op_check"
    /\ pc' = IF ~startup_spinner_stopped THEN "op_flag" ELSE "op_update"
    /\ UNCHANGED <<main_vars, spinner_vars, history_vars, output_vars, id_vars,
                   startup_spinner_stopped, pbar, progress_callback, reviews,
                   data, exc, exit_msg>>

\* line 381
OnProgressFlag ==
    /\ pc = "op_flag"
    /\ startup_spinner_stopped' = TRUE
    /\ pc' = "op_set"
    /\ UNCHANGED <<main_vars, spinner_vars, history_vars, output_vars, id_vars,
                   pbar, progress_callback, reviews, data, exc, exit_msg>>

\* line 382
OnProgressSet ==
    /\ pc = "op_set"
    /\ startup_stop_event' = "set"
    /\ pc' = "op_join"
    /\ UNCHANGED <<main_vars, history_vars, output_vars, id_vars,
                   startup_spinner_stopped, startup_spinner_thread, stop_event,
                   spinner_thread, console, frame, pbar, progress_callback,
                   reviews, data, exc, exit_msg>>

\* line 383: join() returns once the thread has terminated
OnProgressJoin ==
    /\ pc = "op_join"
    /\ startup_spinner_thread = "dead"
    /\ pc' = "op_pbar"
    /\ UNCHANGED <<main_vars, spinner_vars, history_vars, output_vars, id_vars,
                   startup_spinner_stopped, pbar, progress_callback, reviews,
                   data, exc, exit_msg>>

\* line 385
OnProgressCreatePbar ==
    /\ pc = "op_pbar"
    /\ pbar' = [st |-> "open", total |-> Len(elements), n |-> 0]
    /\ pc' = "op_update"
    /\ UNCHANGED <<main_vars, spinner_vars, history_vars, output_vars, id_vars,
                   startup_spinner_stopped, progress_callback, reviews, data,
                   exc, exit_msg>>

\* lines 387-391
OnProgressUpdate ==
    /\ pc = "op_update"
    /\ pbar' = [pbar EXCEPT !.total = Len(elements), !.n = Len(reviews)]
    /\ pc' = "loop"
    /\ UNCHANGED <<main_vars, spinner_vars, history_vars, output_vars, id_vars,
                   startup_spinner_stopped, progress_callback, reviews, data,
                   exc, exit_msg>>

\* tqdm(...) or pbar.refresh() raises (the console cannot be written, an
\* encoding error): nothing in the callback or in the loop catches it
OnProgressRaise ==
    /\ pc \in {"op_pbar", "op_update"}
    /\ cb_failed' = TRUE
    /\ exc' = "Error"
    /\ pc' = "finally"
    /\ UNCHANGED <<main_vars, spinner_vars, interrupted, output_vars, id_vars,
                   startup_spinner_stopped, pbar, progress_callback, reviews,
                   data, exit_msg>>

(***************************************************************************)
(* on_progress_fallback, lines 399-411                                     *)
(***************************************************************************)
\* line 401
FallbackCheck ==
    /\ pc = "fb_check"
    /\ pc' = IF ~startup_spinner_stopped THEN "fb_flag" ELSE "loop"
    /\ UNCHANGED <<main_vars, spinner_vars, history_vars, output_vars, id_vars,
                   startup_spinner_stopped, pbar, progress_callback, reviews,
                   data, exc, exit_msg>>

\* line 402
FallbackFlag ==
    /\ pc = "fb_flag"
    /\ startup_spinner_stopped' = TRUE
    /\ pc' = "fb_set"
    /\ UNCHANGED <<main_vars, spinner_vars, history_vars, output_vars, id_vars,
                   pbar, progress_callback, reviews, data, exc, exit_msg>>

\* line 403
FallbackSet ==
    /\ pc = "fb_set"
    /\ startup_stop_event' = "set"
    /\ pc' = "fb_join"
    /\ UNCHANGED <<main_vars, history_vars, output_vars, id_vars,
                   startup_spinner_stopped, startup_spinner_thread, stop_event,
                   spinner_thread, console, frame, pbar, progress_callback,
                   reviews, data, exc, exit_msg>>

\* line 404 left out: the parsing spinner is started without waiting
FallbackNoJoin ==
    /\ pc = "fb_join"
    /\ pc' = "fb_new"
    /\ UNCHANGED <<main_vars, spinner_vars, history_vars, output_vars, id_vars,
                   startup_spinner_stopped, pbar, progress_callback, reviews,
                   data, exc, exit_msg>>

\* line 404
FallbackJoin ==
    /\ pc = "fb_join"
    /\ startup_spinner_thread = "dead"
    /\ pc' = "fb_new"
    /\ UNCHANGED <<main_vars, spinner_vars, history_vars, output_vars, id_vars,
                   startup_spinner_stopped, pbar, progress_callback, reviews,
                   data, exc, exit_msg>>

\* lines 406-410: spinner_thread = threading.Thread(...), not yet started
FallbackNewThread ==
    /\ pc = "fb_new"
    /\ spinner_thread' = "new"
    /\ pc' = "fb_start"
    /\ UNCHANGED <<main_vars, history_vars, output_vars, id_vars,
                   startup_spinner_stopped, startup_stop_event,
                   startup_spinner_thread, stop_event, console, frame, pbar,
                   progress_callback, reviews, data, exc, exit_msg>>

\* line 411
FallbackStart ==
    /\ pc = "fb_start"
    /\ spinner_thread' = "alive"
    /\ pc' = "loop"
    /\ UNCHANGED <<main_vars, history_vars, output_vars, id_vars,
                   startup_spinner_stopped, startup_stop_event,
                   startup_spinner_thread, stop_event, console, frame, pbar,
                   progress_callback, reviews, data, exc, exit_msg>>

\* line 411: start() raises RuntimeError (no new thread can be started)
FallbackRaise ==
    /\ pc = "fb_start"
    /\ cb_failed' = TRUE
    /\ exc' = "Error"
    /\ pc' = "finally"
    /\ UNCHANGED <<main_vars, spinner_vars, interrupted, output_vars, id_vars,
                   startup_spinner_stopped, pbar, progress_callback, reviews,
                   data, exit_msg>>

(***************************************************************************)
(* show_spinner, lines 213-232, run by a thread                            *)
(***************************************************************************)
\* lines 223-228: the event is not set, one more frame is drawn
StartupSpinnerDraw ==
    /\ pc # "exit"
    /\ startup_spinner_thread = "alive"
    /\ startup_stop_event # "set"
    /\ console' = "startup"
    /\ frame' = (frame + 1) % NumFrames
    /\ UNCHANGED <<pc, main_vars, history_vars, output_vars, id_vars,
                   startup_spinner_stopped, startup_stop_event,
                   startup_spinner_thread, stop_event, spinner_thread, pbar,
                   progress_callback, reviews, data, exc, exit_msg>>

\* lines 224-225, 231-232: the event is set, the line is erased, the thread ends
StartupSpinnerFinish ==
    /\ pc # "exit"
    /\ startup_spinner_thread = "alive"
    /\ startup_stop_event = "set"
    /\ console' = "clean"
    /\ startup_spinner_thread' = "dead"
    /\ UNCHANGED <<pc, main_vars, history_vars, output_vars, id_vars,
                   startup_spinner_stopped, startup_stop_event, stop_event,
                   spinner_thread, frame, pbar, progress_callback, reviews,
                   data, exc, exit_msg>>

ParsingSpinnerDraw ==
    /\ pc # "exit"
    /\ spinner_thread = "alive"
    /\ stop_event # "set"
    /\ console' = "parsing"
    /\ frame' = (frame + 1) % NumFrames
    /\ UNCHANGED <<pc, main_vars, history_vars, output_vars, id_vars,
                   startup_spinner_stopped, startup_stop_event,
                   startup_spinner_thread, stop_event, spinner_thread, pbar,
                   progress_callback, reviews, data, exc, exit_msg>>

ParsingSpinnerFinish ==
    /\ pc # "exit"
    /\ spinner_thread = "alive"
    /\ stop_event = "set"
    /\ console' = "clean"
    /\ spinner_thread' = "dead"
    /\ UNCHANGED <<pc, main_vars, history_vars, output_vars, id_vars,
                   startup_spinner_stopped, startup_stop_event,
                   startup_spinner_thread, stop_event, frame, pbar,
                   progress_callback, reviews, data, exc, exit_msg>>

(***************************************************************************)
(* except KeyboardInterrupt, lines 419-429                                 *)
(***************************************************************************)
flow_vars == <<main_vars, history_vars, output_vars, id_vars,
               startup_spinner_stopped, progress_callback, reviews, data>>

\* line 421
ExceptCheck ==
    /\ pc = "except"
    /\ pc' = IF ~startup_spinner_stopped THEN "except_set" ELSE "except_pbar"
    /\ UNCHANGED <<flow_vars, spinner_vars, pbar, exc, exit_msg>>

\* line 422
ExceptSet ==
    /\ pc = "except_set"
    /\ startup_stop_event' = "set"
    /\ pc' = "except_join"
    /\ UNCHANGED <<flow_vars, startup_spinner_thread, stop_event, spinner_thread,
                   console, frame, pbar, exc, exit_msg>>

\* line 423
ExceptJoin ==
    /\ pc = "except_join"
    /\ startup_spinner_thread = "dead"
    /\ pc' = "except_pbar"
    /\ UNCHANGED <<flow_vars, spinner_vars, pbar, exc, exit_msg>>

\* lines 424-426: if pbar: pbar.close()  elif stop_event and spinner_thread:
ExceptPbar ==
    /\ pc = "except_pbar"
    /\ IF PbarTruthy
       THEN pbar' = [pbar EXCEPT !.st = "closed"] /\ pc' = "except_exit"
       ELSE /\ UNCHANGED pbar
            /\ pc' = IF stop_event # "None" /\ spinner_thread # "None"
                     THEN "except_stop" ELSE "except_exit"
    /\ UNCHANGED <<flow_vars, spinner_vars, exc, exit_msg>>

\* line 427
ExceptStop ==
    /\ pc = "except_stop"
    /\ stop_event' = "set"
    /\ pc' = "except_join2"
    /\ UNCHANGED <<flow_vars, startup_stop_event, startup_spinner_thread,
                   spinner_thread, console, frame, pbar, exc, exit_msg>>

\* line 428: join() returns once the thread has terminated
ExceptJoin2 ==
    /\ pc = "except_join2"
    /\ spinner_thread = "dead"
    /\ pc' = "except_exit"
    /\ UNCHANGED <<flow_vars, spinner_vars, pbar, exc, exit_msg>>

\* line 428: join() of a thread that was never started raises RuntimeError;
\* the handler is left by that exception and the finally block runs
ExceptJoin2Raise ==
    /\ pc = "except_join2"
    /\ spinner_thread = "new"
    /\ exc' = "RuntimeError"
    /\ pc' = "finally"
    /\ UNCHANGED <<flow_vars, spinner_vars, pbar, exit_msg>>

\* line 429: sys.exit(message) raises SystemExit; the finally block runs
ExceptExit ==
    /\ pc = "except_exit"
    /\ exc' = "SystemExit"
    /\ pc' = "finally"
    /\ UNCHANGED <<flow_vars, spinner_vars, pbar, exit_msg>>

(***************************************************************************)
(* finally, lines 430-440                                                  *)
(***************************************************************************)
finally_vars == <<main_vars, history_vars, output_vars, id_vars,
                  startup_spinner_stopped, reviews, data>>

\* lines 431-433
FinallyCheck ==
    /\ pc = "finally"
    /\ progress_callback' = "None"
    /\ pc' = IF ~startup_spinner_stopped THEN "finally_set" ELSE "finally_pbar"
    /\ UNCHANGED <<finally_vars, spinner_vars, pbar, exc, exit_msg>>

\* line 434
FinallySet ==
    /\ pc = "finally_set"
    /\ startup_stop_event' = "set"
    /\ pc' = "finally_join"
    /\ UNCHANGED <<finally_vars, progress_callback, startup_spinner_thread,
                   stop_event, spinner_thread, console, frame, pbar, exc,
                   exit_msg>>

\* line 435
FinallyJoin ==
    /\ pc = "finally_join"
    /\ startup_spinner_thread = "dead"
    /\ pc' = "finally_pbar"
    /\ UNCHANGED <<finally_vars, progress_callback, spinner_vars, pbar, exc,
                   exit_msg>>

\* lines 436-438
FinallyPbar ==
    /\ pc = "finally_pbar"
    /\ IF PbarTruthy
       THEN pbar' = [pbar EXCEPT !.st = "closed"] /\ pc' = "finally_end"
       ELSE /\ UNCHANGED pbar
            /\ pc' = IF stop_event # "None" /\ spinner_thread # "None"
                     THEN "finally_stop" ELSE "finally_end"
    /\ UNCHANGED <<finally_vars, progress_callback, spinner_vars, exc, exit_msg>>

\* line 439
FinallyStop ==
    /\ pc = "finally_stop"
    /\ stop_event' = "set"
    /\ pc' = "finally_join2"
    /\ UNCHANGED <<finally_vars, progress_callback, startup_stop_event,
                   startup_spinner_thread, spinner_thread, console, frame, pbar,
                   exc, exit_msg>>

\* line 440
FinallyJoin2 ==
    /\ pc = "finally_join2"
    /\ spinner_thread = "dead"
    /\ pc' = "finally_end"
    /\ UNCHANGED <<finally_vars, progress_callback, spinner_vars, pbar, exc,
                   exit_msg>>

\* line 440: join() of a thread that was never started raises RuntimeError,
\* which replaces the exception in flight and leaves main
FinallyJoin2Raise ==
    /\ pc = "finally_join2"
    /\ spinner_thread = "new"
    /\ exc' = "RuntimeError"
    /\ exit_msg' = "traceback"
    /\ pc' = "exit"
    /\ UNCHANGED <<finally_vars, progress_callback, spinner_vars, pbar>>

\* the end of the finally block: the exception in flight, if any, leaves
\* main (SystemExit prints the cancellation message, anything else a
\* traceback); otherwise main goes on at line 442
FinallyEnd ==
    /\ pc = "finally_end"
    /\ IF exc = "none" THEN pc' = "render" /\ UNCHANGED exit_msg
       ELSE /\ pc' = "exit"
            /\ exit_msg' = IF exc = "SystemExit" THEN "cancelled" ELSE "traceback"
    /\ UNCHANGED <<finally_vars, progress_callback, spinner_vars, pbar, exc>>

(***************************************************************************)
(* main(): lines 442-451                                                   *)
(***************************************************************************)
tail_vars == <<main_vars, spinner_vars, history_vars, id_vars,
               startup_spinner_stopped, pbar, progress_callback, reviews, data,
               exc>>

\* line 447
MainRender ==
    /\ pc = "render"
    /\ md_text' = build_markdown(data, verbose, tqdm)
    /\ pc' = "resolve"
    /\ UNCHANGED <<tail_vars, output_path, file_written, exit_msg>>

\* line 448
MainValidateOutput ==
    /\ pc = "resolve"
    /\ _validate_output(args_output).st = "ok"
    /\ output_path' = _validate_output(args_output)
    /\ pc' = "write"
    /\ UNCHANGED <<tail_vars, md_text, file_written, exit_msg>>

\* line 448: mkdir raises OSError, which leaves main
MainValidateOutputFail ==
    /\ pc = "resolve"
    /\ _validate_output(args_output).st = "OSError"
    /\ output_path' = _validate_output(args_output)
    /\ exit_msg' = "traceback"
    /\ pc' = "exit"
    /\ UNCHANGED <<tail_vars, md_text, file_written>>

\* lines 449-451
MainWrite ==
    /\ pc = "write"
    /\ file_written' = TRUE
    /\ exit_msg' = "saved"
    /\ pc' = "exit"
    /\ UNCHANGED <<tail_vars, md_text, output_path>>

Next ==
    \/ MainExtractOk
    \/ MainExtractFail
    \/ MainConstructParser
    \/ MainStartStartupSpinner
    \/ MainInstallCallback
    \/ MainCallParse
    \/ FetchOpenPage
    \/ LoopAppend
    \/ LoopCallback
    \/ LoopReturn
    \/ FetchError
    \/ KeyboardInterrupt
    \/ OnProgressCheck
    \/ OnProgressFlag
    \/ OnProgressSet
    \/ OnProgressJoin
    \/ OnProgressCreatePbar
    \/ OnProgressUpdate
    \/ OnProgressRaise
    \/ FallbackCheck
    \/ FallbackFlag
    \/ FallbackSet
    \/ FallbackJoin
    \/ FallbackNewThread
    \/ FallbackStart
    \/ FallbackRaise
    \/ StartupSpinnerDraw
    \/ StartupSpinnerFinish
    \/ ParsingSpinnerDraw
    \/ ParsingSpinnerFinish
    \/ ExceptCheck
    \/ ExceptSet
    \/ ExceptJoin
    \/ ExceptPbar
    \/ ExceptStop
    \/ ExceptJoin2
    \/ ExceptJoin2Raise
    \/ ExceptExit
    \/ FinallyCheck
    \/ FinallySet
    \/ FinallyJoin
    \/ FinallyPbar
    \/ FinallyStop
    \/ FinallyJoin2
    \/ FinallyJoin2Raise
    \/ FinallyEnd
    \/ MainRender
    \/ MainValidateOutput
    \/ MainValidateOutputFail
    \/ MainWrite

Spec == Init /\ [][Next]_vars

(***************************************************************************)
(* extract_id applied to every input of Sources                            *)
(***************************************************************************)
InitExtract ==
    /\ pc = "extract_id"
    /\ input_value \in Sources
    /\ tqdm = FALSE
    /\ verbose = FALSE
    /\ args_output = "None"
    /\ elements = <<>>
    /\ data = NoData
    /\ Quiet

ExtractIdReturn ==
    /\ pc = "extract_id"
    /\ extract_id(input_value).st = "ok"
    /\ company_id' = extract_id(input_value)
    /\ pc' = "returned"
    /\ UNCHANGED <<main_vars, spinner_vars, history_vars, output_vars, parser_id,
                   startup_spinner_stopped, pbar, progress_callback, reviews,
                   data, exc, exit_msg>>

ExtractIdRaise ==
    /\ pc = "extract_id"
    /\ extract_id(input_value).st = "ValueError"
    /\ company_id' = extract_id(input_value)
    /\ pc' = "raised"
    /\ UNCHANGED <<main_vars, spinner_vars, history_vars, output_vars, parser_id,
                   startup_spinner_stopped, pbar, progress_callback, reviews,
                   data, exc, exit_msg>>

NextExtract == ExtractIdReturn \/ ExtractIdRaise

SpecExtract == InitExtract /\ [][NextExtract]_vars

(***************************************************************************)
(* build_markdown applied to every input of ReviewSeqs                     *)
(***************************************************************************)
InitRender ==
    /\ pc = "build_markdown"
    /\ input_value = <<>>
    /\ tqdm \in BOOLEAN
    /\ verbose \in BOOLEAN
    /\ args_output = "None"
    /\ elements = <<>>
    /\ data \in {DataOf(rs) : rs \in ReviewSeqs}
    /\ Quiet

BuildMarkdownReturn ==
    /\ pc = "build_markdown"
    /\ md_text' = build_markdown(data, verbose, tqdm)
    /\ pc' = "returned"
    /\ UNCHANGED <<tail_vars, output_path, file_written, exit_msg>>

NextRender == BuildMarkdownReturn

SpecRender == InitRender /\ [][NextRender]_vars

(***************************************************************************)
(* Properties                                                              *)
(***************************************************************************)
Reviews == data.company_reviews
Headings == SelectSeq(md_text, LAMBDA l : l.kind = "h3")
Bodies == SelectSeq(md_text, LAMBDA l : l.kind = "body")

\* C1: in a run in which KeyboardInterrupt is raised while yp.parse() is in
\* progress, rendering and the file write are never reached (no document,
\* no resolved path, no file, data never bound), and the process ends with
\* the cancellation message.
C1_InterruptEndsWithCancellation ==
    interrupted =>
        /\ pc \notin {"render", "resolve", "write"}
        /\ data = NoData
        /\ md_text = <<>>
        /\ output_path = NoPath
        /\ ~file_written
        /\ (pc = "exit" => exit_msg = "cancelled")

\* C2: when the cancellation message or an error surfaces to the user, every
\* spinner thread that was started has been signalled to stop and has
\* terminated.
C2_SpinnersStoppedWhenErrorSurfaces ==
    (pc = "exit" /\ exit_msg \in {"cancelled", "traceback"}) =>
        /\ (startup_spinner_thread # "None" =>
                startup_stop_event = "set" /\ startup_spinner_thread = "dead")
        /\ (spinner_thread \in {"alive", "dead"} =>
                stop_event = "set" /\ spinner_thread = "dead")

\* C3: at most one spinner thread is alive in every reachable state, and the
\* parsing spinner runs only after the startup spinner has been signalled
\* and has terminated.
C3_AtMostOneSpinnerAlive ==
    /\ ~(startup_spinner_thread = "alive" /\ spinner_thread = "alive")
    /\ (spinner_thread \in {"alive", "dead"} =>
            startup_stop_event = "set" /\ startup_spinner_thread = "dead")

C3_ParsingSpinnerRuns ==
    /\ ~tqdm
    /\ spinner_thread = "alive"
    /\ console = "parsing"
    /\ startup_spinner_thread = "dead"

\* C4: the startup spinner has terminated before the progress bar is created
\* or the parsing spinner is started, and in every run its teardown takes
\* effect exactly once: once the flag startup_spinner_stopped is set every
\* later stop request is skipped, so the spinner is signalled and has
\* terminated by then, and it is so when the run ends.
C4_StartupSpinnerStoppedOnce ==
    /\ ((pbar.st # "None" \/ spinner_thread \in {"alive", "dead"}) =>
            startup_spinner_thread = "dead")
    /\ ((startup_spinner_stopped /\ pc \in {"except", "finally", "exit"}) =>
            startup_stop_event = "set" /\ startup_spinner_thread = "dead")
    /\ ((pc = "exit" /\ startup_spinner_thread # "None") =>
            startup_stop_event = "set" /\ startup_spinner_thread = "dead")

\* C5: after an error raised inside the progress callback the fetch is not
\* aborted: it is still collecting, or it has returned every review.
C5_CallbackErrorDoesNotAbortFetch ==
    cb_failed =>
        \/ pc \in FetchPcs
        \/ (data.st = "set" /\ Len(Reviews) = Len(elements))

\* C6 as stated: while the fetch is in progress the output path has been
\* resolved, and the fetch never starts when it cannot be resolved.
C6_OutputResolvedBeforeFetch ==
    pc \in FetchPcs =>
        /\ company_id.st = "ok"
        /\ output_path.st = "ok"
        /\ _validate_output(args_output).st = "ok"

\* C6 as amended: identifier extraction is performed, and its failure ends
\* the run, before the parser is constructed and the fetch begins; the
\* output path is resolved only after the fetch has returned and the
\* document has been rendered, and a path that cannot be resolved ends the
\* run after the fetch with no file written.
C6_ExtractBeforeFetchResolveAfter ==
    /\ (pc \notin {"extract", "exit"} => company_id.st = "ok")
    /\ (company_id.st = "ValueError" =>
            /\ pc = "exit" /\ exit_msg = "invalid_id"
            /\ parser_id = <<>> /\ startup_spinner_thread = "None"
            /\ data = NoData)
    /\ (output_path # NoPath => data.st = "set" /\ md_text # <<>>)
    /\ (output_path.st = "OSError" =>
            pc = "exit" /\ exit_msg = "traceback" /\ ~file_written)
    /\ (file_written => output_path.st = "ok")

C6_FetchedThenOutputUnresolvable ==
    /\ pc = "exit"
    /\ output_path.st = "OSError"
    /\ data.st = "set"
    /\ Len(Reviews) = Len(elements)
    /\ Len(elements) > 0

\* The rule of C7 read off a string: all digits, or the first run of at
\* least MinDigits digits with a / before it and a boundary after it.
\* newline_ok: a single newline that ends the string also bounds a run.
Bounded(s, q, newline_ok) ==
    \/ q = Len(s) + 1
    \/ (q <= Len(s) /\ s[q] \in {"/", "?"})
    \/ (newline_ok /\ q = Len(s) /\ s[q] = "\n")

Segment(s, i, j, newline_ok) ==
    /\ 1 < i /\ i <= j /\ j <= Len(s)
    /\ j - i + 1 >= MinDigits
    /\ \A k \in i..j : s[k] \in DigitChars
    /\ s[i - 1] = "/"
    /\ Bounded(s, j + 1, newline_ok)

ClaimedId(s, newline_ok) ==
    IF s # <<>> /\ \A k \in 1..Len(s) : s[k] \in DigitChars THEN Id(int(s))
    ELSE LET segs == {ij \in (1..Len(s)) \X (1..Len(s)) :
                         Segment(s, ij[1], ij[2], newline_ok)}
         IN  IF segs = {} THEN ValueError
             ELSE LET i == Min({ij[1] : ij \in segs})
                      j == CHOOSE j \in 1..Len(s) : <<i, j>> \in segs
                  IN  Id(int(SubSeq(s, i, j)))

\* C7 as stated: extract_id returns the value of an all-digit string,
\* otherwise the value of the first run of at least 6 digits that has a /
\* before it and /, ? or the end of the string after it, and fails exactly
\* when neither rule matches.
C7_ExtractIdAsStated ==
    pc \in {"returned", "raised"} => company_id = ClaimedId(input_value, FALSE)

\* C7 as amended: the same, where the run may also be followed by a single
\* newline that ends the string.
C7_ExtractIdNewlineTolerant ==
    pc \in {"returned", "raised"} => company_id = ClaimedId(input_value, TRUE)

C7_RunBeforeFinalNewline ==
    /\ pc = "returned"
    /\ ~isdigit(input_value)
    /\ Len(input_value) > MinDigits + 1
    /\ input_value[Len(input_value)] = "\n"
    /\ input_value[Len(input_value) - 1] \in DigitChars
    /\ company_id.st = "ok"

\* C8: the business id the parser is constructed with is strictly greater
\* than zero.
C8_ParserIdPositive ==
    parser_id # <<>> => parser_id # Zero

\* C9: build_markdown emits exactly one numbered subheading per review, in
\* order: there are len(reviews) subheadings, and subheading i carries the
\* number i and the name, date and body of reviews[i-1].
C9_OneSubheadingPerReview ==
    pc = "returned" =>
        /\ Len(Headings) = Len(Reviews)
        /\ Len(Bodies) = Len(Reviews)
        /\ \A i \in 1..Len(Reviews) :
            /\ Headings[i].idx = i
            /\ Headings[i].val = PyStr(Reviews[i].name)
            /\ Headings[i].aux = strftime(Reviews[i].date)
            /\ Bodies[i].idx = i
            /\ Bodies[i].val = BodyOf(Reviews[i])

C9_TwoDifferentReviewsRendered ==
    /\ pc = "returned"
    /\ Len(Reviews) = 2
    /\ Reviews[1].name # Reviews[2].name
    /\ ~Truthy(Get(Reviews[1], "text"))
    /\ Truthy(Get(Reviews[2], "text"))
    /\ md_text # <<>>

\* C10: a review whose author name is absent is rendered with a placeholder
\* in the subheading, not with the absent value itself or a blank, and a
\* review whose text is absent, empty or whitespace-only is rendered with
\* the no-text placeholder.
C10_PlaceholderForAbsentFields ==
    pc = "returned" =>
        /\ Len(Headings) = Len(Reviews)
        /\ Len(Bodies) = Len(Reviews)
        /\ \A i \in 1..Len(Reviews) :
            /\ (Reviews[i].name = None =>
                    Headings[i].val \notin {PyStr(None), <<>>})
            /\ (LET text == Get(Reviews[i], "text")
                IN  (text = None \/ strip(text.s) = <<>>) =>
                        Bodies[i].val = NoTextPlaceholder)

====
